---- MODULE Spec2Model ----
(***************************************************************************)
(* Model of experimental/puppeteer-firefox/lib/FrameManager.js:            *)
(* FrameManager (frame index, main frame, protocol event handlers),        *)
(* Frame (tree links, navigation state, goto / waitForNavigation races)    *)
(* and WaitTask (registration, timeout timer, terminate).                  *)
(*                                                                         *)
(* Frame, WaitTask and navigation-call objects live in heaps (sequences);  *)
(* an object is named by its position in its heap, 0 is null/undefined.    *)
(***************************************************************************)
EXTENDS Integers, Sequences, FiniteSets, TLC

VARIABLES frames, mainFrame, heap, tasks, calls, promises,
          lastEvent, lastError, emitted, firedLog

vars == <<frames, mainFrame, heap, tasks, calls, promises,
          lastEvent, lastError, emitted, firedLog>>

\* ---------------------------------------------------------------- bounds
MaxIds == 3
MaxFrames == 3
MaxTasks == 2
MaxCalls == 2
MaxNavId == 2
MaxPromises == 2
MaxRuns == 3
MaxPollTasks == 1

\* ------------------------------------------------------------- constants
NULL == 0

FrameIds == 1..MaxIds
NavIds == 1..MaxNavId
Urls == {"about:blank", "http://a/"}
Names == {"", "frame1"}

\* --------------------------------------------------------------- strings
\* Event names are sequences of one-character strings so that
\* String.prototype.toLowerCase is computed character by character.
UpperAlpha == <<"A","B","C","D","E","F","G","H","I","J","K","L","M",
                "N","O","P","Q","R","S","T","U","V","W","X","Y","Z">>
LowerAlpha == <<"a","b","c","d","e","f","g","h","i","j","k","l","m",
                "n","o","p","q","r","s","t","u","v","w","x","y","z">>

ToLowerCaseIdentity(s) == s

ToLowerCase(s) ==
  [i \in DOMAIN s |->
     IF \E k \in DOMAIN UpperAlpha : UpperAlpha[k] = s[i]
     THEN LowerAlpha[CHOOSE k \in DOMAIN UpperAlpha : UpperAlpha[k] = s[i]]
     ELSE s[i]]

Str_load == <<"l","o","a","d">>
Str_DOMContentLoaded ==
  <<"D","O","M","C","o","n","t","e","n","t","L","o","a","d","e","d">>
Str_domcontentloaded ==
  <<"d","o","m","c","o","n","t","e","n","t","l","o","a","d","e","d">>
Str_Load == <<"L","o","a","d">>

\* names a Page.eventFired notification may carry
EventNames == {Str_load, Str_DOMContentLoaded, Str_Load}

\* -------------------------------------------------------------- helpers
Objs == 1..Len(heap)
TaskIds == 1..Len(tasks)
CallIds == 1..Len(calls)

\* Set.prototype.delete on an insertion-ordered Set
SetDelete(seq, x) == SelectSeq(seq, LAMBDA y : y # x)

\* Map.prototype.get(...) with undefined/null folded to NULL
FramesGet(id) == IF id \in DOMAIN frames THEN frames[id] ELSE NULL

\* Map.prototype.delete
FramesDelete(id) == [k \in (DOMAIN frames) \ {id} |-> frames[k]]

\* Map.prototype.set
FramesSet(id, f) == [k \in (DOMAIN frames) \cup {id} |->
                       IF k = id THEN f ELSE frames[k]]

\* clearTimeout: only an armed timer is affected
ClearTimeout(timer) == IF timer = "armed" THEN "cleared" ELSE timer

NoEvent == [type |-> "none", frameId |-> NULL, parentFrameId |-> NULL,
            url |-> "", name |-> "", navigationId |-> NULL,
            eventName |-> <<>>, frame |-> NULL, call |-> NULL,
            task |-> NULL, run |-> 0, outcome |-> "none", check |-> "none",
            promise |-> NULL,
            polling |-> [kind |-> "none", str |-> "", num |-> 0],
            waitUntil |-> [isArray |-> FALSE, value |-> "", items |-> <<>>]]

\* new Frame(...)
NewFrame(frameId) ==
  [frameId |-> frameId,
   parentFrame |-> NULL,
   url |-> "",
   name |-> "",
   children |-> <<>>,
   isDetached |-> FALSE,
   firedEvents |-> {},
   waitTasks |-> {},
   documentPromise |-> NULL,
   lastCommittedNavigationId |-> NULL,
   DOMContentLoadedFired |-> "undefined",
   loadFired |-> "undefined"]

\* ------------------------------------------------------------------ Init
Init ==
  /\ frames = <<>>
  /\ mainFrame = NULL
  /\ heap = <<>>
  /\ tasks = <<>>
  /\ calls = <<>>
  /\ promises = <<>>
  /\ lastEvent = NoEvent
  /\ lastError = "none"
  /\ emitted = <<>>
  /\ firedLog = <<>>

\* ---------------------------------------------------- FrameManager.frames
RECURSIVE CollectChildrenFirst(_, _)
CollectChildrenFirst(h, f) ==
  LET RECURSIVE Kids(_, _)
      Kids(cs, i) == IF i > Len(cs) THEN <<>>
                     ELSE CollectChildrenFirst(h, cs[i]) \o Kids(cs, i + 1)
  IN Kids(h[f].children, 1) \o <<f>>

RECURSIVE Collect(_, _)
\* collect(frame): push the frame, then collect each child in insertion order
Collect(h, f) ==
  LET RECURSIVE Kids(_, _)
      Kids(cs, i) == IF i > Len(cs) THEN <<>>
                     ELSE Collect(h, cs[i]) \o Kids(cs, i + 1)
  IN <<f>> \o Kids(h[f].children, 1)

\* frames(): collect(this._mainFrame); collect(null) dereferences
\* null._children and throws
FramesCall ==
  IF mainFrame = NULL
  THEN [error |-> "TypeError", value |-> <<>>]
  ELSE [error |-> "none", value |-> Collect(heap, mainFrame)]

\* mainFrame()
MainFrameCall == mainFrame

\* ------------------------------------------ FrameManager._onFrameAttached
MainFrameCheckSkipped == TRUE

\* the condition of assert(!this._mainFrame, ...)
MainFrameUnset == mainFrame = NULL

\* (a frame id is unique while its frame is attached: the protocol does
\* not attach an id that is still in the index)
OnFrameAttached(id, parentId) ==
  /\ Len(heap) < MaxFrames
  /\ id \notin DOMAIN frames
  /\ LET parentFrame == FramesGet(parentId)
         frame == Len(heap) + 1
     IN /\ lastEvent' = [NoEvent EXCEPT !.type = "frameAttached",
                           !.frameId = id, !.parentFrameId = parentId,
                           !.frame = parentFrame]
        /\ IF parentFrame # NULL
           THEN /\ heap' = Append(
                     [heap EXCEPT ![parentFrame].children = Append(@, frame)],
                     [NewFrame(id) EXCEPT !.parentFrame = parentFrame])
                /\ firedLog' = Append(firedLog, {})
                /\ frames' = FramesSet(id, frame)
                /\ emitted' = <<[event |-> "FrameAttached", frame |-> frame]>>
                /\ lastError' = "none"
                /\ UNCHANGED mainFrame
           ELSE IF ~MainFrameUnset
           THEN \* assert(!this._mainFrame, ...) throws
                /\ lastError' = "INTERNAL ERROR: re-attaching main frame!"
                /\ emitted' = <<>>
                /\ UNCHANGED <<frames, mainFrame, heap, firedLog>>
           ELSE /\ heap' = Append(heap, NewFrame(id))
                /\ firedLog' = Append(firedLog, {})
                /\ mainFrame' = frame
                /\ frames' = FramesSet(id, frame)
                /\ emitted' = <<[event |-> "FrameAttached", frame |-> frame]>>
                /\ lastError' = "none"
  /\ UNCHANGED <<tasks, calls, promises>>

\* ----------------------------------------------------- WaitTask.terminate
\* terminate(error): _terminated = true; _reject(error); _cleanup()
\* (the removal from frame._waitTasks is applied by the caller on the heap)
TerminateWithoutReject(t, error) ==
  [t EXCEPT !.terminated = TRUE, !.timer = ClearTimeout(@)]
Terminate(t, error) ==
  [t EXCEPT !.terminated = TRUE,
            !.state = IF @ = "pending" THEN "rejected" ELSE @,
            !.error = IF t.state = "pending" THEN error ELSE @,
            !.timer = ClearTimeout(@)]

\* ---------------------------------------------------------- Frame._detach
\* Effect of frame._detach() on the frame heap, for a frame with a parent.
DetachHeap(h, f) ==
  LET p == h[f].parentFrame
  IN [h EXCEPT ![p].children = SetDelete(@, f),
               ![f].parentFrame = NULL,
               ![f].isDetached = TRUE,
               ![f].waitTasks = {}]

\* Effect of frame._detach() on the wait tasks: every task of the frame
\* is terminated with the detachment error.
DetachTasks(ts, h, f) ==
  [t \in DOMAIN ts |->
     IF t \in h[f].waitTasks
     THEN Terminate(ts[t], "waitForFunction failed: frame got detached.")
     ELSE ts[t]]

\* ------------------------------------------ FrameManager._onFrameDetached
OnFrameDetachedCancelsCalls(id) ==
  LET frame == FramesGet(id)
  IN /\ lastEvent' = [NoEvent EXCEPT !.type = "frameDetached",
                        !.frameId = id, !.frame = frame]
     /\ frames' = FramesDelete(id)
     /\ IF frame = NULL
        THEN \* undefined._detach()
             /\ lastError' = "TypeError"
             /\ emitted' = <<>>
             /\ UNCHANGED <<heap, tasks>>
        ELSE IF heap[frame].parentFrame = NULL
        THEN \* this._parentFrame._children with _parentFrame === null
             /\ lastError' = "TypeError"
             /\ emitted' = <<>>
             /\ UNCHANGED <<heap, tasks>>
        ELSE /\ heap' = DetachHeap(heap, frame)
             /\ tasks' = DetachTasks(tasks, heap, frame)
             /\ emitted' = <<[event |-> "FrameDetached", frame |-> frame]>>
             /\ lastError' = "none"
     /\ calls' = [c \in DOMAIN calls |->
                    IF calls[c].frame = frame /\ calls[c].state = "pending"
                    THEN [calls[c] EXCEPT !.pc = "done", !.state = "rejected",
                                         !.result = "Detached",
                                         !.timer = ClearTimeout(@)]
                    ELSE calls[c]]
     /\ UNCHANGED <<mainFrame, promises, firedLog>>
OnFrameDetached(id) ==
  LET frame == FramesGet(id)
  IN /\ lastEvent' = [NoEvent EXCEPT !.type = "frameDetached",
                        !.frameId = id, !.frame = frame]
     /\ frames' = FramesDelete(id)
     /\ IF frame = NULL
        THEN \* undefined._detach()
             /\ lastError' = "TypeError"
             /\ emitted' = <<>>
             /\ UNCHANGED <<heap, tasks>>
        ELSE IF heap[frame].parentFrame = NULL
        THEN \* this._parentFrame._children with _parentFrame === null
             /\ lastError' = "TypeError"
             /\ emitted' = <<>>
             /\ UNCHANGED <<heap, tasks>>
        ELSE /\ heap' = DetachHeap(heap, frame)
             /\ tasks' = DetachTasks(tasks, heap, frame)
             /\ emitted' = <<[event |-> "FrameDetached", frame |-> frame]>>
             /\ lastError' = "none"
     /\ UNCHANGED <<mainFrame, calls, promises, firedLog>>

\* ------------------------------------------------- WaitTask constructor
\* polling values a caller may pass: a string, a number or anything else
Polling(kind, str, num) == [kind |-> kind, str |-> str, num |-> num]
PollingInputs ==
  {Polling("string", "raf", 0), Polling("string", "mutation", 0),
   Polling("string", "bogus", 0), Polling("string", "", 0),
   Polling("number", "", 250), Polling("number", "", 1),
   Polling("number", "", 0), Polling("number", "", -1),
   Polling("other", "", 0)}
TimeoutInputs == {0, 50}

\* the polling validation at the head of the constructor:
\* "ok" or the message of the error it throws
ValidatePollingNonNegative(polling) ==
  IF polling.kind = "string"
  THEN IF polling.str = "raf" \/ polling.str = "mutation"
       THEN "ok" ELSE "Unknown polling option"
  ELSE IF polling.kind = "number"
  THEN IF polling.num >= 0
       THEN "ok" ELSE "Cannot poll with non-positive interval"
  ELSE "Unknown polling options"
ValidatePolling(polling) ==
  IF polling.kind = "string"
  THEN IF polling.str = "raf" \/ polling.str = "mutation"
       THEN "ok" ELSE "Unknown polling option"
  ELSE IF polling.kind = "number"
  THEN IF polling.num > 0
       THEN "ok" ELSE "Cannot poll with non-positive interval"
  ELSE "Unknown polling options"

\* the object the constructor leaves behind: registered, run counter 1
\* (rerun() has incremented it and awaits its first evaluateHandle).
\* inflight: run numbers of the attempts awaiting evaluateHandle (line 701);
\* checking: attempts awaiting frame.evaluate(s => !s, success) (line 715);
\* destroyed: how many attempts failed with a destroyed execution context;
\* value: the run number of the attempt whose handle resolved the promise.
NewWaitTask(frame, polling, timeout) ==
  [frame |-> frame,
   polling |-> polling,
   timeout |-> timeout,
   runCount |-> 1,
   inflight |-> {1},
   checking |-> {},
   destroyed |-> 0,
   terminated |-> FALSE,
   state |-> "pending",
   value |-> 0,
   error |-> "none",
   timer |-> IF timeout # 0 THEN "armed" ELSE "none"]

\* Frame.waitForFunction(pageFunction, {polling, timeout}) on frame object f
WaitForFunction(f, polling, timeout) ==
  /\ Len(tasks) < MaxTasks
  /\ f \in Objs
  /\ lastEvent' = [NoEvent EXCEPT !.type = "waitForFunction", !.frame = f,
                     !.polling = polling]
  /\ emitted' = <<>>
  /\ IF ValidatePolling(polling) # "ok"
     THEN /\ lastError' = ValidatePolling(polling)
          /\ UNCHANGED <<heap, tasks>>
     ELSE /\ lastError' = "none"
          /\ tasks' = Append(tasks, NewWaitTask(f, polling, timeout))
          /\ heap' = [heap EXCEPT ![f].waitTasks = @ \cup {Len(tasks) + 1}]
  /\ UNCHANGED <<frames, mainFrame, calls, promises, firedLog>>

\* the timeout timer of a wait task fires: () => this.terminate(timeoutError)
WaitTaskTimeout(t) ==
  /\ t \in TaskIds
  /\ tasks[t].timer = "armed"
  /\ lastEvent' = [NoEvent EXCEPT !.type = "waitTaskTimer",
                     !.frame = tasks[t].frame, !.task = t]
  /\ emitted' = <<>>
  /\ lastError' = "none"
  /\ tasks' = [tasks EXCEPT ![t] =
                 Terminate([tasks[t] EXCEPT !.timer = "fired"],
                           "TimeoutError")]
  /\ heap' = [heap EXCEPT ![tasks[t].frame].waitTasks = @ \ {t}]
  /\ UNCHANGED <<frames, mainFrame, calls, promises, firedLog>>

\* --------------------------------------------------------- WaitTask.rerun
\* how the awaited frame.evaluateHandle(...) of an attempt can end: with a
\* handle to a truthy or to a falsy value, or by throwing
EvaluateOutcomes == {"truthy", "falsy", "contextDestroyed", "error"}
\* how the awaited frame.evaluate(s => !s, success) can end
CheckOutcomes == {"returned", "threw"}

\* this._resolve(success) / this._reject(error): a settled promise stays
ResolveOverwrites(task, value) ==
  [task EXCEPT !.state = "resolved", !.value = value]
Resolve(task, value) ==
  IF task.state = "pending"
  THEN [task EXCEPT !.state = "resolved", !.value = value]
  ELSE task
Reject(task, error) ==
  IF task.state = "pending"
  THEN [task EXCEPT !.state = "rejected", !.error = error]
  ELSE task

\* _cleanup() on the task object
\* (the removal from frame._waitTasks is applied by the caller on the heap)
Cleanup(task) == [task EXCEPT !.timer = ClearTimeout(@)]

\* line 706: this._terminated || runCount !== this._runCount
DiscardedIfTerminated(task, run) == task.terminated
Discarded(task, run) == task.terminated \/ run # task.runCount

\* line 722: error.message.includes('Execution context was destroyed')
ContextDestroyedNever(outcome) == FALSE
ContextDestroyed(outcome) == outcome = "contextDestroyed"

\* line 696 and 701: const runCount = ++this._runCount; await evaluateHandle
Rerun(task) ==
  [task EXCEPT !.runCount = @ + 1, !.inflight = @ \cup {task.runCount + 1}]

\* lines 702-733 for an attempt whose evaluateHandle has just ended, up to
\* the point where it awaits again or returns
AfterEvaluate(task, run, outcome) ==
  LET t0 == [task EXCEPT !.inflight = @ \ {run}]
  IN IF Discarded(task, run)
     THEN t0
     ELSE IF outcome \in {"truthy", "falsy"}
     THEN [t0 EXCEPT !.checking =
             @ \cup {[run |-> run, truthy |-> outcome = "truthy"]}]
     ELSE IF ContextDestroyed(outcome)
     THEN Rerun([t0 EXCEPT !.destroyed = @ + 1])
     ELSE Cleanup(Reject(t0, "Error"))

\* whether that continuation reaches this._cleanup() (line 732)
EvaluateCleansUpNever(task, run, outcome) == FALSE
EvaluateCleansUp(task, run, outcome) ==
  /\ ~Discarded(task, run)
  /\ outcome \notin {"truthy", "falsy"}
  /\ ~ContextDestroyed(outcome)

\* line 715: await this._frame.evaluate(s => !s, success).catch(e => true)
CheckThrowsIsTruthy(truthy, result) == result = "returned" /\ ~truthy
CheckSaysFalsy(truthy, result) ==
  IF result = "threw" THEN TRUE ELSE ~truthy

\* lines 715-732 for an attempt whose truthiness check has just ended
AfterCheckRetries(task, attempt, result) ==
  LET t0 == [task EXCEPT !.checking = @ \ {attempt}]
  IN IF CheckSaysFalsy(attempt.truthy, result)
     THEN Rerun(t0)
     ELSE Cleanup(Resolve(t0, attempt.run))
AfterCheck(task, attempt, result) ==
  LET t0 == [task EXCEPT !.checking = @ \ {attempt}]
  IN IF CheckSaysFalsy(attempt.truthy, result)
     THEN t0
     ELSE Cleanup(Resolve(t0, attempt.run))

\* the evaluateHandle of attempt number run of task t ends
EvaluateHandleSettles(t, run, outcome) ==
  /\ t \in TaskIds
  /\ run \in tasks[t].inflight
  /\ outcome = "contextDestroyed" => tasks[t].runCount < MaxRuns
  /\ lastEvent' = [NoEvent EXCEPT !.type = "evaluateHandleSettled",
                     !.frame = tasks[t].frame, !.task = t, !.run = run,
                     !.outcome = outcome]
  /\ emitted' = <<>>
  /\ lastError' = "none"
  /\ tasks' = [tasks EXCEPT ![t] = AfterEvaluate(tasks[t], run, outcome)]
  /\ heap' = IF EvaluateCleansUp(tasks[t], run, outcome)
             THEN [heap EXCEPT ![tasks[t].frame].waitTasks = @ \ {t}]
             ELSE heap
  /\ UNCHANGED <<frames, mainFrame, calls, promises, firedLog>>

\* the truthiness check of an attempt of task t ends
CheckSettles(t, attempt, result) ==
  /\ t \in TaskIds
  /\ attempt \in tasks[t].checking
  /\ lastEvent' = [NoEvent EXCEPT !.type = "checkSettled",
                     !.frame = tasks[t].frame, !.task = t,
                     !.run = attempt.run,
                     !.outcome = IF attempt.truthy THEN "truthy" ELSE "falsy",
                     !.check = result]
  /\ emitted' = <<>>
  /\ lastError' = "none"
  /\ tasks' = [tasks EXCEPT ![t] = AfterCheck(tasks[t], attempt, result)]
  /\ heap' = IF CheckSaysFalsy(attempt.truthy, result)
             THEN heap
             ELSE [heap EXCEPT ![tasks[t].frame].waitTasks = @ \ {t}]
  /\ UNCHANGED <<frames, mainFrame, calls, promises, firedLog>>

\* ------------------------------------------------------ Frame._navigated
NavigatedKeepsEvents(fr, url, name, navigationId) ==
  [fr EXCEPT !.url = url,
             !.name = name,
             !.lastCommittedNavigationId = navigationId,
             !.documentPromise = NULL]

Navigated(fr, url, name, navigationId) ==
  [fr EXCEPT !.url = url,
             !.name = name,
             !.lastCommittedNavigationId = navigationId,
             !.documentPromise = NULL,
             !.firedEvents = {}]

\* ------------------------------------ FrameManager._onNavigationCommitted
OnNavigationCommitted(id, url, name, navigationId) ==
  LET frame == FramesGet(id)
  IN /\ lastEvent' = [NoEvent EXCEPT !.type = "navigationCommitted",
                        !.frameId = id, !.url = url, !.name = name,
                        !.navigationId = navigationId, !.frame = frame]
     /\ IF frame = NULL
        THEN \* undefined._navigated(...)
             /\ lastError' = "TypeError"
             /\ emitted' = <<>>
             /\ UNCHANGED <<heap, firedLog>>
        ELSE /\ heap' = [heap EXCEPT ![frame] =
                   [Navigated(@, url, name, navigationId) EXCEPT
                      !.DOMContentLoadedFired = "false",
                      !.loadFired = "false"]]
             /\ firedLog' = [firedLog EXCEPT ![frame] = {}]
             /\ emitted' = <<[event |-> "FrameNavigated", frame |-> frame]>>
             /\ lastError' = "none"
     /\ UNCHANGED <<frames, mainFrame, tasks, calls, promises>>

\* --------------------------------- FrameManager._onSameDocumentNavigation
SetUrlAndClear(fr, url) == [fr EXCEPT !.url = url, !.firedEvents = {}]

\* frame._url = params.url
SetUrl(fr, url) == [fr EXCEPT !.url = url]

OnSameDocumentNavigation(id, url) ==
  LET frame == FramesGet(id)
  IN /\ lastEvent' = [NoEvent EXCEPT !.type = "sameDocumentNavigation",
                        !.frameId = id, !.url = url, !.frame = frame]
     /\ IF frame = NULL
        THEN \* undefined._url = ...
             /\ lastError' = "TypeError"
             /\ emitted' = <<>>
             /\ UNCHANGED heap
        ELSE /\ heap' = [heap EXCEPT ![frame] = SetUrl(@, url)]
             /\ emitted' = <<[event |-> "FrameNavigated", frame |-> frame]>>
             /\ lastError' = "none"
     /\ UNCHANGED <<frames, mainFrame, tasks, calls, promises, firedLog>>

\* -------------------------------------------- FrameManager._onEventFired
\* the notifications emitted for an event fired on the main frame
MainFrameNotifications(name) ==
  IF name = Str_load THEN <<[event |-> "Load", frame |-> NULL]>>
  ELSE IF name = Str_DOMContentLoaded
  THEN <<[event |-> "DOMContentLoaded", frame |-> NULL]>>
  ELSE <<>>

OnEventFired(id, name) ==
  LET frame == FramesGet(id)
  IN /\ lastEvent' = [NoEvent EXCEPT !.type = "eventFired",
                        !.frameId = id, !.eventName = name, !.frame = frame]
     /\ IF frame = NULL
        THEN \* undefined._firedEvents
             /\ lastError' = "TypeError"
             /\ emitted' = <<>>
             /\ UNCHANGED <<heap, firedLog>>
        ELSE /\ heap' = [heap EXCEPT ![frame].firedEvents =
                                        @ \cup {ToLowerCase(name)}]
             /\ firedLog' = [firedLog EXCEPT ![frame] = @ \cup {name}]
             /\ emitted' = IF frame = mainFrame
                           THEN MainFrameNotifications(name) ELSE <<>>
             /\ lastError' = "none"
     /\ UNCHANGED <<frames, mainFrame, tasks, calls, promises>>

\* -------------------------------------------------------- Frame._document
\* the test of `if (!this._documentPromise)`
DocumentCachedNever(fr) == FALSE
DocumentCached(fr) == fr.documentPromise # NULL

\* A query operation ($, $$, $eval, $$eval, $x) on frame object f calls
\* _document(): the promise is created once and cached, and the cached
\* promise is handed out afterwards.
QueryDocument(f) ==
  /\ f \in Objs
  /\ ~DocumentCached(heap[f]) => Len(promises) < MaxPromises
  /\ lastEvent' = [NoEvent EXCEPT !.type = "query", !.frame = f]
  /\ emitted' = <<>>
  /\ lastError' = "none"
  /\ IF DocumentCached(heap[f])
     THEN UNCHANGED <<promises, heap>>
     ELSE /\ promises' = Append(promises, "pending")
          /\ heap' = [heap EXCEPT ![f].documentPromise = Len(promises) + 1]
  /\ UNCHANGED <<frames, mainFrame, tasks, calls, firedLog>>

\* how evaluateHandle('document').then(handle => handle.asElement()) ends
DocumentOutcomes == {"resolved", "rejected"}

\* the promise created by _document() settles: no field of a frame is
\* assigned by it
DocumentSettles(p, how) ==
  /\ p \in DOMAIN promises
  /\ promises[p] = "pending"
  /\ lastEvent' = [NoEvent EXCEPT !.type = "documentSettled", !.promise = p,
                     !.outcome = how]
  /\ emitted' = <<>>
  /\ lastError' = "none"
  /\ promises' = [promises EXCEPT ![p] = how]
  /\ UNCHANGED <<frames, mainFrame, heap, tasks, calls, firedLog>>

\* ---------------------------------------------------- normalizeWaitUntil
\* A waitUntil argument: isArray tells whether the caller passed an array;
\* items holds the elements of an array, value what was passed otherwise.
WaitUntil(isArray, value, items) ==
  [isArray |-> isArray, value |-> value, items |-> items]
WaitUntilInputs ==
  {WaitUntil(FALSE, v, <<>>) :
     v \in {"load", "domcontentloaded", "bogus", "Load"}}
  \cup {WaitUntil(TRUE, "", l) :
     l \in {<<>>, <<"load">>, <<"load", "domcontentloaded">>,
            <<"domcontentloaded", "load">>, <<"load", "load">>,
            <<"load", "bogus">>, <<"bogus", "load">>}}

\* normalizeWaitUntil: wrap a non-array, then validate each condition;
\* error is "none" or the message of the error thrown
NormalizeWaitUntilFirstOnly(waitUntil) ==
  LET list == IF ~waitUntil.isArray THEN <<waitUntil.value>>
              ELSE waitUntil.items
  IN IF \E i \in DOMAIN list :
          i = 1 /\ list[i] # "load" /\ list[i] # "domcontentloaded"
     THEN [error |-> "Unknown waitUntil condition", value |-> <<>>]
     ELSE [error |-> "none", value |-> list]
NormalizeWaitUntil(waitUntil) ==
  LET list == IF ~waitUntil.isArray THEN <<waitUntil.value>>
              ELSE waitUntil.items
  IN IF \E i \in DOMAIN list :
          list[i] # "load" /\ list[i] # "domcontentloaded"
     THEN [error |-> "Unknown waitUntil condition", value |-> <<>>]
     ELSE [error |-> "none", value |-> list]

\* ----------------------------------- Frame.goto / Frame.waitForNavigation
UNSET == -1

\* the record of one goto / waitForNavigation call: its position (pc), the
\* navigationId local, its timer, the detectors it created and its promise
NewCall(kind, f, timeout, waitUntil) ==
  [kind |-> kind,
   frame |-> f,
   timeout |-> timeout,
   waitUntil |-> waitUntil,
   pc |-> "start",
   navigationId |-> UNSET,
   timer |-> "none",
   nextNavigationDog |-> "none",
   watchDog |-> "none",
   state |-> "pending",
   result |-> "none"]

\* timeout ? setTimeout(timeoutCallback, timeout) : null
SetTimeoutAlways(timeout) == "armed"
SetTimeout(timeout) == IF timeout # 0 THEN "armed" ELSE "none"

\* detector.dispose()
Dispose(detector) == IF detector = "active" THEN "disposed" ELSE detector

HasNavigationIdAlways(navigationId) == TRUE

\* the test of `if (!navigationId)`
HasNavigationId(navigationId) == navigationId # NULL

\* the async function returns value
Return(c, value) ==
  [c EXCEPT !.pc = "done", !.state = "resolved", !.result = value]

\* the async function throws error
Throw(c, error) ==
  [c EXCEPT !.pc = "done", !.state = "rejected", !.result = error]

CallEvent(type, c) ==
  [NoEvent EXCEPT !.type = type, !.call = c]

CallFrame(c, next) ==
  /\ calls' = [calls EXCEPT ![c] = next]
  /\ emitted' = <<>>
  /\ lastError' = "none"
  /\ UNCHANGED <<frames, mainFrame, heap, tasks, promises, firedLog>>

\* goto(url, {timeout, waitUntil}) up to its first await
Goto(f, timeout, waitUntil) ==
  /\ Len(calls) < MaxCalls
  /\ f \in Objs
  /\ LET c == NewCall("goto", f, timeout, NormalizeWaitUntil(waitUntil).value)
     IN calls' = Append(calls,
          IF NormalizeWaitUntil(waitUntil).error # "none"
          THEN Throw(c, NormalizeWaitUntil(waitUntil).error)
          ELSE [c EXCEPT !.pc = "navigate"])
  /\ lastEvent' = [CallEvent("goto", Len(calls) + 1) EXCEPT
                     !.waitUntil = waitUntil]
  /\ emitted' = <<>>
  /\ lastError' = "none"
  /\ UNCHANGED <<frames, mainFrame, heap, tasks, promises, firedLog>>

\* Page.navigate answers with {navigationId}: lines 202-210
NavigateReturns(c, navigationId) ==
  /\ c \in CallIds
  /\ calls[c].pc = "navigate"
  /\ lastEvent' = CallEvent("navigateReturned", c)
  /\ CallFrame(c,
       IF ~HasNavigationId(navigationId)
       THEN Return([calls[c] EXCEPT !.navigationId = navigationId],
                   "undefined")
       ELSE [calls[c] EXCEPT !.navigationId = navigationId,
                             !.timer = SetTimeout(calls[c].timeout),
                             !.watchDog = "active",
                             !.pc = "race"])

\* Page.navigate fails: the await at line 198 throws
NavigateFails(c) ==
  /\ c \in CallIds
  /\ calls[c].pc = "navigate"
  /\ lastEvent' = CallEvent("navigateFailed", c)
  /\ CallFrame(c, Throw(calls[c], "ProtocolError"))

\* waitForNavigation({timeout, waitUntil}) up to its first await
WaitForNavigation(f, timeout, waitUntil) ==
  /\ Len(calls) < MaxCalls
  /\ f \in Objs
  /\ LET c == NewCall("waitForNavigation", f, timeout,
                      NormalizeWaitUntil(waitUntil).value)
     IN calls' = Append(calls,
          IF NormalizeWaitUntil(waitUntil).error # "none"
          THEN Throw(c, NormalizeWaitUntil(waitUntil).error)
          ELSE [c EXCEPT !.timer = SetTimeout(timeout),
                         !.nextNavigationDog = "active",
                         !.pc = "nextNavigation"])
  /\ lastEvent' = [CallEvent("waitForNavigation", Len(calls) + 1) EXCEPT
                     !.waitUntil = waitUntil]
  /\ emitted' = <<>>
  /\ lastError' = "none"
  /\ UNCHANGED <<frames, mainFrame, heap, tasks, promises, firedLog>>

\* The timer of a call fires: timeoutPromise resolves with timeoutError and
\* the pending race, if any, is won by it (lines 160-166 and 215-218).
\* A timer left armed by a call that has already settled fires idly.
NavigationTimeout(c) ==
  /\ c \in CallIds
  /\ calls[c].timer = "armed"
  /\ lastEvent' = CallEvent("navigationTimer", c)
  /\ LET fired == [calls[c] EXCEPT !.timer = "fired"]
     IN CallFrame(c,
          IF calls[c].pc = "nextNavigation"
          THEN Throw([fired EXCEPT
                        !.nextNavigationDog = Dispose(@),
                        !.timer = ClearTimeout(@)], "TimeoutError")
          ELSE IF calls[c].pc = "race"
          THEN Throw([fired EXCEPT
                        !.watchDog = Dispose(@),
                        !.timer = ClearTimeout(@)], "TimeoutError")
          ELSE fired)

\* what nextNavigationDog.promise() may do: resolve after a navigation with
\* an id started, resolve after a same-document navigation, resolve with
\* an error value, or reject
NextNavigationOutcomes ==
  {[how |-> "resolved", error |-> "none", navigationId |-> n] :
      n \in NavIds \cup {NULL}}
  \cup {[how |-> "resolved", error |-> "NavigationError",
         navigationId |-> NULL],
        [how |-> "rejected", error |-> "NavigationError",
         navigationId |-> NULL]}

\* nextNavigationDog.promise() settles first: lines 156-176
NextNavigationSettles(c, outcome) ==
  /\ c \in CallIds
  /\ calls[c].pc = "nextNavigation"
  /\ lastEvent' = CallEvent("nextNavigationSettled", c)
  /\ CallFrame(c,
       IF outcome.how = "rejected"
       THEN \* the await throws: nothing after it runs
            Throw(calls[c], outcome.error)
       ELSE IF outcome.error # "none"
       THEN Throw([calls[c] EXCEPT
                     !.nextNavigationDog = Dispose(@),
                     !.timer = ClearTimeout(@)], outcome.error)
       ELSE IF ~HasNavigationId(outcome.navigationId)
       THEN Return([calls[c] EXCEPT
                      !.nextNavigationDog = Dispose(@),
                      !.navigationId = outcome.navigationId,
                      !.timer = ClearTimeout(@)], "null")
       ELSE [calls[c] EXCEPT
               !.nextNavigationDog = Dispose(@),
               !.navigationId = outcome.navigationId,
               !.watchDog = "active",
               !.pc = "race"])

\* what watchDog.promise() may do: resolve with nothing (the navigation
\* completed, with or without a response), resolve with an error value,
\* or reject
WatchDogOutcomes ==
  {[how |-> "resolved", error |-> "none", response |-> r] :
      r \in {"null", "response"}}
  \cup {[how |-> "resolved", error |-> "NavigationError",
         response |-> "null"],
        [how |-> "rejected", error |-> "NavigationError",
         response |-> "null"]}

\* watchDog.promise() settles first: lines 177-185 and 211-219
WatchDogSettles(c, outcome) ==
  /\ c \in CallIds
  /\ calls[c].pc = "race"
  /\ lastEvent' = [CallEvent("watchDogSettled", c) EXCEPT
                     !.outcome = IF outcome.error # "none" THEN outcome.error
                                 ELSE outcome.response]
  /\ CallFrame(c,
       IF outcome.how = "rejected"
       THEN \* the await throws: nothing after it runs
            Throw(calls[c], outcome.error)
       ELSE LET released == [calls[c] EXCEPT
                               !.watchDog = Dispose(@),
                               !.timer = ClearTimeout(@)]
            IN IF outcome.error # "none"
               THEN Throw(released, outcome.error)
               ELSE Return(released, outcome.response))

\* the promise of a watchdog that lost the race to the timer settles
\* afterwards: Promise.race has settled, the call is not waiting for it
WatchDogSettlesLate(c, outcome) ==
  /\ c \in CallIds
  /\ calls[c].pc = "done"
  /\ calls[c].timer = "fired"
  /\ calls[c].watchDog = "disposed"
  /\ lastEvent' = [CallEvent("watchDogSettledLate", c) EXCEPT
                     !.outcome = IF outcome.error # "none" THEN outcome.error
                                 ELSE outcome.response]
  /\ CallFrame(c, calls[c])

\* -------------------------------------------------------------- spec
\* frame tree only: attach / detach notifications
NextTree ==
  \/ \E id \in FrameIds, parentId \in FrameIds \cup {NULL} :
        OnFrameAttached(id, parentId)
  \/ \E id \in FrameIds : OnFrameDetached(id)

SpecTree == Init /\ [][NextTree]_vars

\* frame tree with wait tasks outstanding on the frames
DetachFrameIds == {1, 2}
DetachPollingInputs == {Polling("string", "raf", 0), Polling("number", "", 0)}

NextDetach ==
  \/ \E id \in DetachFrameIds, parentId \in DetachFrameIds \cup {NULL} :
        OnFrameAttached(id, parentId)
  \/ \E id \in DetachFrameIds : OnFrameDetached(id)
  \/ \E f \in Objs, polling \in DetachPollingInputs, timeout \in TimeoutInputs :
        WaitForFunction(f, polling, timeout)
  \/ \E t \in TaskIds : WaitTaskTimeout(t)

SpecDetach == Init /\ [][NextDetach]_vars

\* navigation commits, lifecycle notifications and document queries on a
\* tree of at most two frames (ids drawn from NavFrameIds)
NavFrameIds == {1, 2}
CommitNames == {"frame1"}
CommitEventNames == {Str_DOMContentLoaded}

NextCommit ==
  \/ \E id \in NavFrameIds, parentId \in NavFrameIds \cup {NULL} :
        OnFrameAttached(id, parentId)
  \/ \E id \in NavFrameIds, url \in Urls, name \in CommitNames,
        nav \in NavIds :
        OnNavigationCommitted(id, url, name, nav)
  \/ \E id \in NavFrameIds, name \in CommitEventNames :
        OnEventFired(id, name)
  \/ \E f \in Objs : QueryDocument(f)

SpecCommit == Init /\ [][NextCommit]_vars

\* same-document navigations on frames that may have committed a
\* navigation, fired events, a cached document promise and wait tasks
FramePollingInputs == {Polling("string", "mutation", 0)}

NextSameDocument ==
  \/ \E id \in NavFrameIds, parentId \in NavFrameIds \cup {NULL} :
        OnFrameAttached(id, parentId)
  \/ \E id \in NavFrameIds :
        OnNavigationCommitted(id, "http://a/", "frame1", 1)
  \/ \E id \in NavFrameIds, url \in Urls : OnSameDocumentNavigation(id, url)
  \/ \E id \in NavFrameIds, name \in CommitEventNames :
        OnEventFired(id, name)
  \/ \E f \in Objs : QueryDocument(f)
  \/ \E f \in Objs, polling \in FramePollingInputs :
        WaitForFunction(f, polling, 0)

SpecSameDocument == Init /\ [][NextSameDocument]_vars

\* lifecycle notifications between navigation commits
NextEvents ==
  \/ \E id \in NavFrameIds, parentId \in NavFrameIds \cup {NULL} :
        OnFrameAttached(id, parentId)
  \/ \E id \in FrameIds :
        OnNavigationCommitted(id, "http://a/", "frame1", 1)
  \/ \E id \in FrameIds, name \in EventNames : OnEventFired(id, name)

SpecEvents == Init /\ [][NextEvents]_vars

\* goto / waitForNavigation calls on the main frame
CallFrameIds == {1}
NavWaitUntilInputs == {WaitUntil(FALSE, "load", <<>>),
                       WaitUntil(FALSE, "bogus", <<>>)}

NextNav ==
  \/ \E id \in CallFrameIds : OnFrameAttached(id, NULL)
  \/ \E f \in Objs, timeout \in TimeoutInputs, w \in NavWaitUntilInputs :
        Goto(f, timeout, w)
  \/ \E c \in CallIds, n \in NavIds \cup {NULL} : NavigateReturns(c, n)
  \/ \E c \in CallIds : NavigateFails(c)
  \/ \E f \in Objs, timeout \in TimeoutInputs, w \in NavWaitUntilInputs :
        WaitForNavigation(f, timeout, w)
  \/ \E c \in CallIds : NavigationTimeout(c)
  \/ \E c \in CallIds, o \in NextNavigationOutcomes :
        NextNavigationSettles(c, o)
  \/ \E c \in CallIds, o \in WatchDogOutcomes : WatchDogSettles(c, o)

SpecNav == Init /\ [][NextNav]_vars

\* goto calls on the main frame racing their timer against their watchdog
RaceWaitUntilInputs == {WaitUntil(TRUE, "", <<"load">>)}

NextRace ==
  \/ \E id \in CallFrameIds : OnFrameAttached(id, NULL)
  \/ \E f \in Objs, timeout \in TimeoutInputs, w \in RaceWaitUntilInputs :
        Goto(f, timeout, w)
  \/ \E c \in CallIds, n \in NavIds \cup {NULL} : NavigateReturns(c, n)
  \/ \E c \in CallIds : NavigationTimeout(c)
  \/ \E c \in CallIds, o \in WatchDogOutcomes : WatchDogSettles(c, o)
  \/ \E c \in CallIds, o \in WatchDogOutcomes : WatchDogSettlesLate(c, o)

SpecRace == Init /\ [][NextRace]_vars

\* wait tasks polling on the main frame and on one child frame: attempts
\* that end in every way, the timeout timer and the detachment of the child
\* (each frame id is attached once)
TaskFrameIds == {1, 2}
TaskPollingInputs == {Polling("string", "raf", 0)}

NextTask ==
  \/ \E id \in TaskFrameIds :
        /\ \A o \in Objs : heap[o].frameId # id
        /\ OnFrameAttached(id, id - 1)
  \/ \E id \in TaskFrameIds \ {1} : OnFrameDetached(id)
  \/ \E f \in Objs, polling \in TaskPollingInputs, timeout \in TimeoutInputs :
        Len(tasks) < MaxPollTasks /\ WaitForFunction(f, polling, timeout)
  \/ \E t \in TaskIds : WaitTaskTimeout(t)
  \/ \E t \in TaskIds, run \in 1..MaxRuns, o \in EvaluateOutcomes :
        EvaluateHandleSettles(t, run, o)
  \/ \E t \in TaskIds, run \in 1..MaxRuns, truthy \in BOOLEAN,
        r \in CheckOutcomes :
        CheckSettles(t, [run |-> run, truthy |-> truthy], r)

SpecTask == Init /\ [][NextTask]_vars

\* an armed setTimeout callback is eventually run by the event loop
SpecTaskFair ==
  SpecTask /\ \A t \in 1..MaxPollTasks : WF_vars(WaitTaskTimeout(t))

\* wait tasks constructed on the main frame with every kind of polling
NextPolling ==
  \/ \E id \in CallFrameIds : OnFrameAttached(id, NULL)
  \/ \E f \in Objs, polling \in PollingInputs, timeout \in TimeoutInputs :
        WaitForFunction(f, polling, timeout)

SpecPolling == Init /\ [][NextPolling]_vars

\* goto / waitForNavigation calls started on the main frame with every
\* kind of waitUntil argument
NextWaitUntil ==
  \/ \E id \in CallFrameIds : OnFrameAttached(id, NULL)
  \/ \E f \in Objs, w \in WaitUntilInputs : Goto(f, 0, w)
  \/ \E f \in Objs, w \in WaitUntilInputs : WaitForNavigation(f, 0, w)

SpecWaitUntil == Init /\ [][NextWaitUntil]_vars

\* document queries between navigation commits, with the resolution of
\* the document handle ending at any time
NextDocument ==
  \/ \E id \in NavFrameIds, parentId \in NavFrameIds \cup {NULL} :
        OnFrameAttached(id, parentId)
  \/ \E id \in NavFrameIds :
        OnNavigationCommitted(id, "http://a/", "frame1", 1)
  \/ \E f \in Objs : QueryDocument(f)
  \/ \E q \in 1..MaxPromises, how \in DocumentOutcomes :
        DocumentSettles(q, how)

SpecDocument == Init /\ [][NextDocument]_vars

\* goto / waitForNavigation calls on the main frame and on one child frame
\* with the detachment of the child (each frame id is attached once)
NavDetachWaitUntilInputs == {WaitUntil(TRUE, "", <<"load">>)}
NavDetachTimeouts == {50}
NavDetachWatchDogOutcomes == {o \in WatchDogOutcomes : o.how = "resolved"}
NavDetachNextOutcomes ==
  {o \in NextNavigationOutcomes : o.navigationId = 1}

NextNavDetach ==
  \/ \E id \in TaskFrameIds :
        /\ \A o \in Objs : heap[o].frameId # id
        /\ OnFrameAttached(id, id - 1)
  \/ \E id \in TaskFrameIds \ {1} : OnFrameDetached(id)
  \/ \E f \in Objs, timeout \in NavDetachTimeouts,
        w \in NavDetachWaitUntilInputs : Goto(f, timeout, w)
  \/ \E c \in CallIds : NavigateReturns(c, 1)
  \/ \E f \in Objs, timeout \in NavDetachTimeouts,
        w \in NavDetachWaitUntilInputs : WaitForNavigation(f, timeout, w)
  \/ \E c \in CallIds : NavigationTimeout(c)
  \/ \E c \in CallIds, o \in NavDetachNextOutcomes :
        NextNavigationSettles(c, o)
  \/ \E c \in CallIds, o \in NavDetachWatchDogOutcomes :
        WatchDogSettles(c, o)

SpecNavDetach == Init /\ [][NextNavDetach]_vars

\* a well-behaved event source: a frame id is attached only while it is not
\* indexed, and only indexed frames other than the main frame are detached
NextSubtree ==
  \/ \E id \in FrameIds, parentId \in FrameIds \cup {NULL} :
        /\ id \notin DOMAIN frames
        /\ OnFrameAttached(id, parentId)
  \/ \E id \in FrameIds :
        /\ id \in DOMAIN frames
        /\ frames[id] # mainFrame
        /\ OnFrameDetached(id)

SpecSubtree == Init /\ [][NextSubtree]_vars

\* ======================================================== properties
Range(seq) == {seq[i] : i \in DOMAIN seq}

\* the frames of the tree: the indexed records and what frames() reaches
InTree == Range(frames) \cup Range(FramesCall.value)

RECURSIVE Ancestors(_)
\* the chain of parent links above a frame
Ancestors(f) ==
  IF heap[f].parentFrame = NULL THEN {}
  ELSE {heap[f].parentFrame} \cup Ancestors(heap[f].parentFrame)

Descendants(f) == {g \in Objs : f \in Ancestors(g)}

Position(seq, x) == CHOOSE i \in DOMAIN seq : seq[i] = x

ReattachError == "INTERNAL ERROR: re-attaching main frame!"
DetachError == "waitForFunction failed: frame got detached."

\* C1: at most one frame of the tree has no parent, and a frame-attached
\* notification whose parent id does not resolve, delivered while the main
\* frame exists and is still attached, fails with the re-attachment
\* violation and adds nothing to the index.
C1_AtMostOneRoot ==
  Cardinality({f \in InTree : heap[f].parentFrame = NULL}) <= 1

C1_ReattachFails ==
  (/\ lastEvent'.type = "frameAttached"
   /\ FramesGet(lastEvent'.parentFrameId) = NULL
   /\ mainFrame # NULL
   /\ mainFrame \in Range(frames))
  => (/\ lastError' = ReattachError
      /\ frames' = frames
      /\ mainFrame' = mainFrame
      /\ heap' = heap
      /\ emitted' = <<>>)

\* C1: both parts together, the invariant and the failing re-attachment step
C1_MainFrameInvariant == [](C1_AtMostOneRoot) /\ [][C1_ReattachFails]_vars

C1_Witness ==
  /\ lastEvent.type = "frameAttached"
  /\ lastError = ReattachError
  /\ mainFrame \in Range(frames)
  /\ Cardinality(DOMAIN frames) >= 2

\* C2 (as claimed): a frame-detached notification for any indexed frame F,
\* main frame or child, rejects every outstanding wait task of F with the
\* detachment error, removes F from the index, unlinks it from its parent,
\* sets its detached flag and emits FrameDetached.
C2_DetachAnyFrame ==
  [][(/\ lastEvent'.type = "frameDetached"
      /\ FramesGet(lastEvent'.frameId) # NULL)
     => LET F == frames[lastEvent'.frameId]
        IN /\ \A t \in heap[F].waitTasks :
                /\ tasks'[t].state = "rejected"
                /\ tasks'[t].error = DetachError
                /\ tasks'[t].terminated
           /\ lastEvent'.frameId \notin DOMAIN frames'
           /\ \A g \in Objs : F \notin Range(heap'[g].children)
           /\ heap'[F].isDetached
           /\ emitted' = <<[event |-> "FrameDetached", frame |-> F]>>]_vars

\* C3 (as claimed): a frame-detached notification for an id that is not in
\* the index raises no error and changes nothing.
C3_DetachUnknownIsNoop ==
  [][(/\ lastEvent'.type = "frameDetached"
      /\ FramesGet(lastEvent'.frameId) = NULL)
     => (/\ lastError' = "none"
         /\ frames' = frames
         /\ mainFrame' = mainFrame
         /\ heap' = heap
         /\ tasks' = tasks)]_vars

\* C4: whenever a main frame exists, frames() is a pre-order traversal
\* rooted at it: the root comes first, every other frame comes after its
\* parent and inside its parent's contiguous block, siblings keep their
\* insertion order, no frame occurs twice, and the length is one plus the
\* number of descendants of the main frame.
C4_FramesPreOrder ==
  mainFrame # NULL =>
    LET fr == FramesCall.value
    IN /\ FramesCall.error = "none"
       /\ fr[1] = mainFrame
       /\ \A i, j \in DOMAIN fr : fr[i] = fr[j] => i = j
       /\ Len(fr) = 1 + Cardinality(Descendants(mainFrame))
       /\ Range(fr) = {mainFrame} \cup Descendants(mainFrame)
       /\ \A i \in DOMAIN fr : i > 1 =>
            /\ heap[fr[i]].parentFrame \in Range(fr)
            /\ LET j == Position(fr, heap[fr[i]].parentFrame)
               IN /\ j < i
                  /\ \A k \in (j + 1)..i : fr[j] \in Ancestors(fr[k])
       /\ \A f \in Range(fr) :
            LET cs == heap[f].children
            IN \A a, b \in DOMAIN cs :
                 a < b => Position(fr, cs[a]) < Position(fr, cs[b])

C4_Witness ==
  /\ mainFrame # NULL
  /\ Len(FramesCall.value) >= 3
  /\ \E f \in Range(FramesCall.value) : Cardinality(Ancestors(f)) = 2

\* C5 (as claimed): before any main frame exists frames() returns an empty
\* result instead of failing, and mainFrame() returns none.
C5_FramesBeforeMainFrame ==
  mainFrame = NULL =>
    /\ FramesCall.error = "none"
    /\ FramesCall.value = <<>>
    /\ MainFrameCall = NULL

\* C6: right after a navigation-committed notification for an indexed
\* frame F, F carries the notification's url, name and navigation id, its
\* fired-events set is empty, its DOMContentLoaded/load flags are false
\* and FrameNavigated was emitted for F.
C6_CommitResetsFrame ==
  (/\ lastEvent.type = "navigationCommitted"
   /\ FramesGet(lastEvent.frameId) # NULL)
  => LET F == frames[lastEvent.frameId]
     IN /\ heap[F].url = lastEvent.url
        /\ heap[F].name = lastEvent.name
        /\ heap[F].lastCommittedNavigationId = lastEvent.navigationId
        /\ heap[F].firedEvents = {}
        /\ heap[F].DOMContentLoadedFired = "false"
        /\ heap[F].loadFired = "false"
        /\ emitted = <<[event |-> "FrameNavigated", frame |-> F]>>
        /\ lastError = "none"

\* a second commit (navigation id 2) on a child frame, after a document
\* handle had been requested for some frame and dropped again
C6_Witness ==
  /\ lastEvent.type = "navigationCommitted"
  /\ FramesGet(lastEvent.frameId) # NULL
  /\ heap[frames[lastEvent.frameId]].parentFrame # NULL
  /\ lastEvent.navigationId = 2
  /\ Len(promises) > 0
  /\ \A f \in Objs : heap[f].documentPromise = NULL

\* C7: a same-document-navigation notification for an indexed frame F
\* sets F.url to the notification's url and changes nothing else: fired
\* events, last committed navigation id, name, cached document promise,
\* tree links, wait tasks and all other frames stay as they were, and
\* FrameNavigated is emitted for F.
C7_SameDocumentStep ==
  (/\ lastEvent'.type = "sameDocumentNavigation"
   /\ FramesGet(lastEvent'.frameId) # NULL)
  => LET F == frames[lastEvent'.frameId]
     IN /\ heap'[F].url = lastEvent'.url
        /\ heap'[F].firedEvents = heap[F].firedEvents
        /\ heap'[F].lastCommittedNavigationId
             = heap[F].lastCommittedNavigationId
        /\ heap'[F].name = heap[F].name
        /\ heap'[F].documentPromise = heap[F].documentPromise
        /\ heap'[F].parentFrame = heap[F].parentFrame
        /\ heap'[F].children = heap[F].children
        /\ heap'[F].waitTasks = heap[F].waitTasks
        /\ heap'[F].isDetached = heap[F].isDetached
        /\ \A g \in Objs \ {F} : heap'[g] = heap[g]
        /\ frames' = frames
        /\ mainFrame' = mainFrame
        /\ tasks' = tasks
        /\ promises' = promises
        /\ emitted' = <<[event |-> "FrameNavigated", frame |-> F]>>

\* C7: every same-document-navigation step changes F.url only
C7_SameDocumentOnlyUrl == [][C7_SameDocumentStep]_vars

C7_Witness ==
  /\ lastEvent.type = "sameDocumentNavigation"
  /\ FramesGet(lastEvent.frameId) # NULL
  /\ LET F == frames[lastEvent.frameId]
     IN /\ heap[F].url = lastEvent.url
        /\ heap[F].firedEvents # {}
        /\ heap[F].lastCommittedNavigationId # NULL
        /\ heap[F].documentPromise # NULL
        /\ heap[F].waitTasks # {}
        /\ heap[F].parentFrame # NULL

\* what toLowerCase is expected to give for the event names
ExpectedLower(name) ==
  CASE name = Str_load -> Str_load
    [] name = Str_Load -> Str_load
    [] name = Str_DOMContentLoaded -> Str_domcontentloaded

\* C8: a frame's fired-events set is exactly the set of lowercased names
\* fired for it since its last navigation commit, and a lifecycle
\* notification emits Load (name 'load') or DOMContentLoaded (name
\* 'DOMContentLoaded') if and only if its frame is the main frame.
C8_FiredEvents ==
  /\ \A f \in Objs :
       heap[f].firedEvents = {ExpectedLower(n) : n \in firedLog[f]}
  /\ (/\ lastEvent.type = "eventFired"
      /\ FramesGet(lastEvent.frameId) # NULL)
     => LET F == frames[lastEvent.frameId]
        IN /\ ExpectedLower(lastEvent.eventName) \in heap[F].firedEvents
           /\ ([event |-> "Load", frame |-> NULL] \in Range(emitted)
                 <=> (F = mainFrame /\ lastEvent.eventName = Str_load))
           /\ ([event |-> "DOMContentLoaded", frame |-> NULL]
                 \in Range(emitted)
                 <=> (F = mainFrame
                      /\ lastEvent.eventName = Str_DOMContentLoaded))
           /\ Len(emitted) <= 1

C8_Witness ==
  /\ lastEvent.type = "eventFired"
  /\ FramesGet(lastEvent.frameId) = mainFrame
  /\ mainFrame # NULL
  /\ lastEvent.eventName = Str_DOMContentLoaded
  /\ emitted = <<[event |-> "DOMContentLoaded", frame |-> NULL]>>
  /\ heap[mainFrame].firedEvents = {Str_load, Str_domcontentloaded}
  /\ heap[mainFrame].lastCommittedNavigationId # NULL
  /\ \E f \in Objs : f # mainFrame /\ Str_load \in heap[f].firedEvents

\* C9: a goto whose navigate command answered without a navigation id,
\* and a waitForNavigation whose next-navigation detector reported a
\* navigation without id, has resolved with no response at once and never
\* constructed a navigation-outcome detector.
C9_NoIdResolvesAtOnce ==
  \A c \in CallIds :
    calls[c].navigationId = NULL =>
      /\ calls[c].pc = "done"
      /\ calls[c].state = "resolved"
      /\ calls[c].result =
           (IF calls[c].kind = "goto" THEN "undefined" ELSE "null")
      /\ calls[c].watchDog = "none"

C9_Witness ==
  /\ \E c \in CallIds :
       /\ calls[c].kind = "goto"
       /\ calls[c].navigationId = NULL
       /\ calls[c].state = "resolved"
  /\ \E c \in CallIds :
       /\ calls[c].kind = "waitForNavigation"
       /\ calls[c].navigationId = NULL
       /\ calls[c].state = "resolved"
       /\ calls[c].timer = "cleared"

\* C10 (as claimed): once a goto or waitForNavigation call has settled, on
\* whatever exit path, its timer is no longer armed and every detector it
\* created is disposed.
C10_SettledCallReleasesAll ==
  \A c \in CallIds :
    calls[c].state # "pending" =>
      /\ calls[c].timer # "armed"
      /\ calls[c].nextNavigationDog # "active"
      /\ calls[c].watchDog # "active"

\* the task whose current attempt has just ended, in the step's post-state
CurrentAttemptEnds(t, type, outcome) ==
  /\ lastEvent'.type = type
  /\ lastEvent'.task = t
  /\ lastEvent'.outcome = outcome
  /\ lastEvent'.run = tasks[t].runCount
  /\ ~tasks[t].terminated
  /\ tasks[t].state = "pending"

\* C11: when the current attempt of a pending, non-terminated wait task
\* fails because the execution context was destroyed, the step issues
\* exactly one new attempt (the run counter grows by one and the new run is
\* the only one in flight) and leaves the task pending, its timer and its
\* registration untouched.
C11_RetryStep ==
  \A t \in TaskIds :
    CurrentAttemptEnds(t, "evaluateHandleSettled", "contextDestroyed")
    => /\ tasks'[t].runCount = tasks[t].runCount + 1
       /\ tasks'[t].inflight = {tasks[t].runCount + 1}
       /\ tasks'[t].checking = {}
       /\ tasks'[t].state = "pending"
       /\ ~tasks'[t].terminated
       /\ tasks'[t].timer = tasks[t].timer
       /\ heap' = heap

\* C11: when the truthy value of the current attempt has been confirmed
\* by the truthiness check, the task resolves with that value; the attempt
\* is number k + 1 after k context-destroyed failures.
C11_ResolveStep ==
  \A t \in TaskIds :
    (/\ CurrentAttemptEnds(t, "checkSettled", "truthy")
     /\ lastEvent'.check = "returned")
    => /\ tasks'[t].state = "resolved"
       /\ tasks'[t].value = tasks[t].destroyed + 1
       /\ tasks'[t].runCount = tasks[t].destroyed + 1

\* C11: a task has made exactly k + 1 attempts when k of them failed with
\* a destroyed context, and a resolved task was resolved by attempt number
\* k + 1, with that attempt's value.
C11_AttemptCount ==
  \A t \in TaskIds :
    /\ tasks[t].runCount = tasks[t].destroyed + 1
    /\ tasks[t].state = "resolved" => tasks[t].value = tasks[t].destroyed + 1

C12_TimerStep ==
  \A t \in TaskIds :
    (lastEvent'.type = "waitTaskTimer" /\ lastEvent'.task = t)
    => /\ tasks[t].state = "pending"
       /\ tasks[t].timeout # 0
       /\ tasks'[t].state = "rejected"
       /\ tasks'[t].error = "TimeoutError"
       /\ tasks'[t].terminated
       /\ tasks'[t].timer = "fired"
       /\ t \notin heap'[tasks[t].frame].waitTasks

\* C12: a zero timeout arms no timer; a timer is armed only while the task
\* is pending, and a task whose timer fired stays rejected with the timeout
\* error, without timer and outside the wait-task set.
C12_Timer ==
  \A t \in TaskIds :
    /\ tasks[t].timeout = 0 => tasks[t].timer = "none"
    /\ tasks[t].timer = "armed" => tasks[t].state = "pending"
    /\ tasks[t].timer = "fired" =>
         /\ tasks[t].state = "rejected"
         /\ tasks[t].error = "TimeoutError"
         /\ t \notin heap[tasks[t].frame].waitTasks

\* the ways a task with a timeout leaves the pending state
TimedOut(t) ==
  /\ t \in TaskIds
  /\ tasks[t].state = "rejected"
  /\ tasks[t].error = "TimeoutError"
  /\ tasks[t].timer = "fired"
  /\ t \notin heap[tasks[t].frame].waitTasks
SettledOtherwise(t) ==
  /\ t \in TaskIds
  /\ tasks[t].state # "pending"
  /\ tasks[t].error # "TimeoutError"
  /\ tasks[t].timer = "cleared"

\* C12: a wait task constructed with a non-zero timeout eventually rejects
\* with the timeout error once its timer fires, whatever its attempts do
\* (in flight, falsy, context-destroyed retries), unless it was settled
\* before by a match, another failure or a detachment; afterwards it has no
\* armed timer and is not in the wait-task set. A zero timeout arms no
\* timer.
C12_TimeoutRejects ==
  /\ []C12_Timer
  /\ [][C12_TimerStep]_vars
  /\ \A t \in 1..MaxPollTasks :
       (t \in TaskIds /\ tasks[t].timer = "armed")
         ~> (TimedOut(t) \/ SettledOtherwise(t))

\* the timer fired after a falsy result and a context-destroyed retry
C12_Witness ==
  \E t \in TaskIds :
    /\ TimedOut(t)
    /\ lastEvent.type = "waitTaskTimer"
    /\ tasks[t].destroyed >= 1
    /\ tasks[t].inflight # {}

\* C13: the step in which a wait task is terminated (by its timer or by
\* the detachment of its frame) rejects it with the error passed to
\* terminate, leaves no armed timer and removes it from the frame's
\* wait-task set, without touching the attempt in flight.
C13_TerminateStep ==
  \A t \in TaskIds :
    (~tasks[t].terminated /\ tasks'[t].terminated)
    => /\ lastEvent'.type \in {"waitTaskTimer", "frameDetached"}
       /\ tasks'[t].state = "rejected"
       /\ tasks'[t].error =
            (IF lastEvent'.type = "waitTaskTimer" THEN "TimeoutError"
             ELSE "waitForFunction failed: frame got detached.")
       /\ tasks'[t].timer # "armed"
       /\ t \notin heap'[tasks[t].frame].waitTasks
       /\ tasks'[t].inflight = tasks[t].inflight
       /\ tasks'[t].checking = tasks[t].checking
       /\ tasks'[t].runCount = tasks[t].runCount

\* C13: no step changes the settlement of a terminated task or issues a
\* new attempt for it: attempts in flight can only end.
C13_TerminatedStep ==
  \A t \in TaskIds :
    tasks[t].terminated
    => /\ tasks'[t].terminated
       /\ tasks'[t].state = "rejected"
       /\ tasks'[t].error = tasks[t].error
       /\ tasks'[t].value = tasks[t].value
       /\ tasks'[t].timer = tasks[t].timer
       /\ tasks'[t].runCount = tasks[t].runCount
       /\ tasks'[t].inflight \subseteq tasks[t].inflight
       /\ tasks'[t].checking \subseteq tasks[t].checking
       /\ t \notin heap'[tasks[t].frame].waitTasks

\* C13: terminate(error) marks the task terminated, rejects it with error,
\* clears its timer and removes it from the wait-task set regardless of
\* any attempt in flight, and an attempt that completes afterwards, with
\* any outcome, neither changes the settlement nor issues a new attempt.
C13_TerminateIsFinal ==
  [][C13_TerminateStep /\ C13_TerminatedStep]_vars

\* a truthy value confirmed after the frame of the task was detached
C13_Witness ==
  \E t \in TaskIds :
    /\ lastEvent.type = "checkSettled"
    /\ lastEvent.task = t
    /\ lastEvent.outcome = "truthy"
    /\ lastEvent.check = "returned"
    /\ tasks[t].terminated
    /\ tasks[t].state = "rejected"
    /\ tasks[t].error = "waitForFunction failed: frame got detached."
    /\ tasks[t].timer = "cleared"

\* C14: the polling values for which the construction of a wait task is
\* to succeed: 'raf', 'mutation' and the strictly positive numbers
PollingAccepted(p) ==
  CASE p.kind = "string" /\ p.str = "raf" -> TRUE
    [] p.kind = "string" /\ p.str = "mutation" -> TRUE
    [] p.kind = "string" /\ p.str \notin {"raf", "mutation"} -> FALSE
    [] p.kind = "number" /\ p.num > 0 -> TRUE
    [] p.kind = "number" /\ p.num <= 0 -> FALSE
    [] OTHER -> FALSE

\* C14: a wait task is constructed (registered on its frame, pending, with
\* a first attempt in flight) exactly for the accepted polling values; for
\* every other value the construction throws and leaves nothing behind.
C14_ConstructionStep ==
  lastEvent'.type = "waitForFunction"
  => LET p == lastEvent'.polling
         f == lastEvent'.frame
         t == Len(tasks) + 1
     IN IF PollingAccepted(p)
        THEN /\ lastError' = "none"
             /\ Len(tasks') = t
             /\ tasks'[t].polling = p
             /\ tasks'[t].state = "pending"
             /\ heap'[f].waitTasks = heap[f].waitTasks \cup {t}
        ELSE /\ lastError' \in {"Unknown polling option",
                                "Cannot poll with non-positive interval",
                                "Unknown polling options"}
             /\ tasks' = tasks
             /\ heap' = heap

\* C14: construction succeeds for 'raf', 'mutation' and any strictly
\* positive interval, and fails for an interval <= 0, any other string and
\* any value that is neither a string nor a number.
C14_PollingValidation == [][C14_ConstructionStep]_vars

\* a task polling every 250 ms exists and the last construction, with
\* interval 0, failed
C14_Witness ==
  /\ lastEvent.type = "waitForFunction"
  /\ lastEvent.polling = Polling("number", "", 0)
  /\ lastError = "Cannot poll with non-positive interval"
  /\ \E t \in TaskIds : tasks[t].polling = Polling("number", "", 250)
  /\ \A t \in TaskIds : tasks[t].polling # Polling("number", "", 0)

\* C15: a goto or waitForNavigation call started with a valid single
\* condition c works with the list <<c>>, one started with a list of valid
\* conditions works with that list unchanged, and one started with an
\* argument holding anything but 'load' or 'domcontentloaded' has failed
\* with the validation error.
C15_NormalizedWaitUntil ==
  lastEvent.type \in {"goto", "waitForNavigation"}
  => LET w == lastEvent.waitUntil
         c == calls[lastEvent.call]
         elements == IF w.isArray THEN Range(w.items) ELSE {w.value}
     IN IF elements \subseteq {"load", "domcontentloaded"}
        THEN /\ c.state = "pending"
             /\ w.isArray => c.waitUntil = w.items
             /\ ~w.isArray => c.waitUntil = <<w.value>>
        ELSE /\ c.state = "rejected"
             /\ c.result = "Unknown waitUntil condition"

\* a call given the list load, domcontentloaded after a call given the
\* single condition load
C15_Witness ==
  /\ lastEvent.type = "goto"
  /\ lastEvent.waitUntil = WaitUntil(TRUE, "", <<"load", "domcontentloaded">>)
  /\ calls[lastEvent.call].waitUntil = <<"load", "domcontentloaded">>
  /\ \E c \in CallIds : calls[c].waitUntil = <<"load">>
  /\ lastEvent.call = 2

\* C16 (as claimed): when the current attempt of a non-terminated wait
\* task has returned a truthy value, the task settles resolved with that
\* value, its timer is cleared and it leaves the frame's wait-task set.
C16_TruthyStep ==
  \A t \in TaskIds :
    CurrentAttemptEnds(t, "checkSettled", "truthy")
    => /\ tasks'[t].state = "resolved"
       /\ tasks'[t].value = lastEvent'.run
       /\ tasks'[t].timer # "armed"
       /\ t \notin heap'[tasks[t].frame].waitTasks

\* C16 (as claimed): a truthy value returned by the current attempt of a
\* non-terminated task always resolves the task.
C16_TruthyResolves == [][C16_TruthyStep]_vars

\* C16 (amended): the truthy value returned by the current attempt of a
\* non-terminated task resolves the task, clears its timer and removes it
\* from the wait-task set when the truthiness check
\* frame.evaluate(s => !s, success) answers; when that check fails the run
\* is ignored as a falsy one is: the task stays pending, registered, with
\* its timer as it was and without a new attempt.
C16_CheckedStep ==
  \A t \in TaskIds :
    CurrentAttemptEnds(t, "checkSettled", "truthy")
    => IF lastEvent'.check = "returned"
       THEN /\ tasks'[t].state = "resolved"
            /\ tasks'[t].value = lastEvent'.run
            /\ tasks'[t].timer # "armed"
            /\ t \notin heap'[tasks[t].frame].waitTasks
       ELSE /\ tasks'[t].state = "pending"
            /\ tasks'[t].timer = tasks[t].timer
            /\ tasks'[t].runCount = tasks[t].runCount
            /\ tasks'[t].inflight = {}
            /\ tasks'[t].checking = {}
            /\ heap' = heap

\* C16 (amended): a truthy value whose truthiness check answers resolves
\* the task; one whose check fails is ignored.
C16_CheckedTruthyResolves == [][C16_CheckedStep]_vars

\* a task with a timeout resolved by the confirmed value of attempt 1
C16_Witness ==
  \E t \in TaskIds :
    /\ lastEvent.type = "checkSettled"
    /\ lastEvent.task = t
    /\ lastEvent.outcome = "truthy"
    /\ lastEvent.check = "returned"
    /\ tasks[t].state = "resolved"
    /\ tasks[t].value = 1
    /\ tasks[t].timer = "cleared"
    /\ ~tasks[t].terminated
    /\ t \notin heap[tasks[t].frame].waitTasks

\* C17: the step in which the current attempt of a non-terminated task is
\* found to have returned a falsy value discards it: the task stays
\* pending and registered, its timer stays as it was (armed when the task
\* has a timeout) and no attempt is in flight afterwards.
C17_FalsyStep ==
  \A t \in TaskIds :
    CurrentAttemptEnds(t, "checkSettled", "falsy")
    => /\ tasks'[t].state = "pending"
       /\ ~tasks'[t].terminated
       /\ tasks'[t].runCount = tasks[t].runCount
       /\ tasks'[t].inflight = {}
       /\ tasks'[t].checking = {}
       /\ tasks'[t].timer = tasks[t].timer
       /\ tasks[t].timeout # 0 => tasks'[t].timer = "armed"
       /\ t \in heap'[tasks[t].frame].waitTasks

\* a pending task without an attempt in flight or being checked
Idle(t) ==
  /\ tasks[t].state = "pending"
  /\ tasks[t].inflight = {}
  /\ tasks[t].checking = {}

\* C17: a step changes an idle pending task only by terminating it, from
\* its timeout timer or from the detachment of its frame.
C17_IdleStep ==
  \A t \in TaskIds :
    (Idle(t) /\ tasks'[t] # tasks[t])
    => /\ tasks'[t].terminated
       /\ tasks'[t].state = "rejected"
       /\ lastEvent'.type \in {"waitTaskTimer", "frameDetached"}

\* C17: a falsy value returned by the current attempt of a non-terminated
\* task is discarded without settling the task, issuing a new attempt,
\* touching the timer or the wait-task set, and from then on the task
\* leaves the pending state only through terminate.
C17_FalsyIsDiscarded == [][C17_FalsyStep /\ C17_IdleStep]_vars

\* a task with a timeout left idle by a falsy value
C17_Witness ==
  \E t \in TaskIds :
    /\ lastEvent.type = "checkSettled"
    /\ lastEvent.task = t
    /\ lastEvent.outcome = "falsy"
    /\ lastEvent.check = "returned"
    /\ Idle(t)
    /\ tasks[t].timer = "armed"
    /\ t \in heap[tasks[t].frame].waitTasks

\* the run numbers of the attempts of a task that have not ended
Attempts(task) == task.inflight \cup {a.run : a \in task.checking}

\* C18: every attempt of a task that has not ended carries the task's run
\* counter, and there is at most one such attempt; applying the
\* continuation of rerun() to an attempt with any other run number, with
\* any outcome of its evaluateHandle, leaves the task as it is: no
\* settlement, no cleanup and no new attempt.
C18_OneCurrentAttempt ==
  \A t \in TaskIds :
    /\ Attempts(tasks[t]) \subseteq {tasks[t].runCount}
    /\ Cardinality(tasks[t].inflight) + Cardinality(tasks[t].checking) <= 1
    /\ \A run \in (1..(MaxRuns + 1)) \ {tasks[t].runCount},
          o \in EvaluateOutcomes :
          /\ AfterEvaluate(tasks[t], run, o) = tasks[t]
          /\ ~EvaluateCleansUp(tasks[t], run, o)

\* C18: the run counter of a task only increases, and a step that leaves
\* it unchanged starts no attempt.
C18_CounterStep ==
  \A t \in TaskIds :
    /\ tasks'[t].runCount >= tasks[t].runCount
    /\ tasks'[t].runCount = tasks[t].runCount =>
         tasks'[t].inflight \subseteq tasks[t].inflight
    /\ tasks'[t].runCount # tasks[t].runCount =>
         /\ tasks'[t].runCount = tasks[t].runCount + 1
         /\ tasks'[t].inflight = {tasks'[t].runCount}

\* C18: at most one attempt of a wait task is current, the one whose run
\* number equals the run counter, which only increases; the completion of
\* an attempt with another run number neither settles the task nor issues
\* a new attempt.
C18_StaleAttemptsAreInert ==
  []C18_OneCurrentAttempt /\ [][C18_CounterStep]_vars

\* the third attempt of a task is in flight after two retries
C18_Witness ==
  \E t \in TaskIds :
    /\ tasks[t].runCount = 3
    /\ tasks[t].inflight = {3}
    /\ tasks[t].state = "pending"
    /\ lastEvent.type = "evaluateHandleSettled"
    /\ lastEvent.run = 2

\* C19: the step that settles a goto racing its timer against its
\* watchdog: the timer gives the timeout error, a failure of the watchdog
\* gives that failure and a success of the watchdog gives the response of
\* the navigation.
C19_RaceStep ==
  \A c \in CallIds :
    (/\ calls[c].kind = "goto"
     /\ calls[c].pc = "race"
     /\ lastEvent'.call = c)
    => /\ calls[c].navigationId # NULL
       /\ calls[c].state = "pending"
       /\ calls'[c].pc = "done"
       /\ lastEvent'.type \in {"navigationTimer", "watchDogSettled"}
       /\ lastEvent'.type = "navigationTimer" =>
            /\ calls[c].timeout # 0
            /\ calls'[c].state = "rejected"
            /\ calls'[c].result = "TimeoutError"
       /\ (lastEvent'.type = "watchDogSettled"
            /\ lastEvent'.outcome = "NavigationError") =>
            /\ calls'[c].state = "rejected"
            /\ calls'[c].result = "NavigationError"
       /\ (lastEvent'.type = "watchDogSettled"
            /\ lastEvent'.outcome # "NavigationError") =>
            /\ calls'[c].state = "resolved"
            /\ calls'[c].result = lastEvent'.outcome

\* C19: no step changes the outcome of a goto that has settled
C19_SettledStep ==
  \A c \in CallIds :
    (calls[c].kind = "goto" /\ calls[c].pc = "done")
    => /\ calls'[c].pc = "done"
       /\ calls'[c].state = calls[c].state
       /\ calls'[c].result = calls[c].result

\* C19: a goto with a zero timeout never has a timer and never fails with
\* the timeout error; one with a timeout races with its timer armed.
C19_Timer ==
  \A c \in CallIds :
    calls[c].kind = "goto" =>
      /\ calls[c].timeout = 0 =>
           /\ calls[c].timer = "none"
           /\ calls[c].result # "TimeoutError"
      /\ (calls[c].timeout # 0 /\ calls[c].pc = "race") =>
           calls[c].timer = "armed"

\* C19: a goto that obtained a navigation id is settled by whichever of
\* its timer and its watchdog settles first (timeout error, the failure of
\* the watchdog, or the response of the navigation), a later settlement of
\* the loser does not change the result, and with a zero timeout no timer
\* is armed, so that only the watchdog settles the call.
C19_FirstSettlementWins ==
  []C19_Timer /\ [][C19_RaceStep /\ C19_SettledStep]_vars

\* the watchdog of a goto that timed out reports a response afterwards
C19_Witness ==
  /\ lastEvent.type = "watchDogSettledLate"
  /\ lastEvent.outcome = "response"
  /\ calls[lastEvent.call].kind = "goto"
  /\ calls[lastEvent.call].state = "rejected"
  /\ calls[lastEvent.call].result = "TimeoutError"
  /\ \E c \in CallIds :
       /\ calls[c].kind = "goto"
       /\ calls[c].timeout = 0
       /\ calls[c].state = "resolved"
       /\ calls[c].result = "response"

\* the state of the cached document handle of a frame
DocumentState(h, ps, f) ==
  IF h[f].documentPromise = NULL THEN "absent"
  ELSE IF ps[h[f].documentPromise] = "pending" THEN "pending"
  ELSE "present"

\* C20: a navigation commit for an indexed frame leaves its cached
\* document handle absent, whatever it was before.
C20_CommitStep ==
  (lastEvent'.type = "navigationCommitted" /\ lastEvent'.frame # NULL)
  => DocumentState(heap', promises', lastEvent'.frame) = "absent"

\* C20: the end of a handle resolution writes no cache: a frame whose cache
\* was reset by a commit after the resolution started stays absent (or
\* keeps the resolution started since), and only the frame that still
\* caches this resolution moves from pending to present.
C20_SettleStep ==
  lastEvent'.type = "documentSettled"
  => /\ heap' = heap
     /\ \A f \in Objs :
          IF heap[f].documentPromise = lastEvent'.promise
          THEN /\ DocumentState(heap, promises, f) = "pending"
               /\ DocumentState(heap', promises', f) = "present"
          ELSE DocumentState(heap', promises', f)
                 = DocumentState(heap, promises, f)

\* C20: a resolution is started only by a query on a frame whose cache is
\* absent, and a cache that is pending or present changes only by a commit
\* for its frame, so that at most one resolution is started between two
\* consecutive commits.
C20_StartStep ==
  /\ Len(promises') # Len(promises) =>
       /\ lastEvent'.type = "query"
       /\ Len(promises') = Len(promises) + 1
       /\ DocumentState(heap, promises, lastEvent'.frame) = "absent"
       /\ heap'[lastEvent'.frame].documentPromise = Len(promises')
  /\ \A f \in Objs :
       /\ heap'[f].documentPromise # heap[f].documentPromise =>
            \/ /\ lastEvent'.type = "navigationCommitted"
               /\ lastEvent'.frame = f
            \/ /\ lastEvent'.type = "query"
               /\ lastEvent'.frame = f
               /\ heap[f].documentPromise = NULL
               /\ Len(promises') = Len(promises) + 1
       /\ (lastEvent'.type = "query" /\ lastEvent'.frame = f
            /\ heap[f].documentPromise # NULL) =>
            /\ promises' = promises
            /\ heap' = heap

\* C20: the cached document handle of a frame is absent right after every
\* navigation commit for the frame, a resolution started before a commit
\* never writes the cache after it, and between two commits at most one
\* resolution is started, however many queries run.
C20_DocumentCache ==
  [][C20_CommitStep /\ C20_SettleStep /\ C20_StartStep]_vars

\* a resolution started before a commit ends after it, when a query has
\* started the resolution of the new document: the cache keeps the new one
C20_Witness ==
  /\ lastEvent.type = "documentSettled"
  /\ promises[lastEvent.promise] = "resolved"
  /\ \A f \in Objs : heap[f].documentPromise # lastEvent.promise
  /\ \E f \in Objs :
       /\ heap[f].lastCommittedNavigationId # NULL
       /\ heap[f].documentPromise > lastEvent.promise
       /\ DocumentState(heap, promises, f) = "pending"
       /\ \A g \in Objs \ {f} : heap[g].documentPromise = NULL

\* a goto or waitForNavigation call that is racing its timer against one
\* of its detectors
InFlight(c) ==
  /\ calls[c].state = "pending"
  /\ calls[c].pc \in {"nextNavigation", "race"}

\* C21: a frame-detached event changes no goto or waitForNavigation call:
\* state, result, position, timer and detectors of every call, the calls
\* on the detached frame included, are as they were.
C21_DetachStep ==
  lastEvent'.type = "frameDetached" => calls' = calls

\* C21: a call in flight changes only in a step of its own timer or of its
\* own detector.
C21_OwnSettlementStep ==
  \A c \in CallIds :
    (InFlight(c) /\ calls'[c] # calls[c])
    => /\ lastEvent'.call = c
       /\ lastEvent'.type \in {"navigationTimer", "nextNavigationSettled",
                                "watchDogSettled"}

\* C21: the detachment of frame F neither settles nor cancels a goto or
\* waitForNavigation in flight on F, leaves its timer and its detectors as
\* they are, and the call settles only when its own timer or detector does.
C21_DetachKeepsCalls == [][C21_DetachStep /\ C21_OwnSettlementStep]_vars

\* the child frame was detached with a goto and a waitForNavigation in
\* flight on it: both are pending with timer and detector untouched
C21_Witness ==
  /\ lastEvent.type = "frameDetached"
  /\ lastEvent.frame # NULL
  /\ heap[lastEvent.frame].isDetached
  /\ \E c \in CallIds :
       /\ calls[c].kind = "goto"
       /\ calls[c].frame = lastEvent.frame
       /\ InFlight(c)
       /\ calls[c].timer = "armed"
       /\ calls[c].watchDog = "active"
  /\ \E c \in CallIds :
       /\ calls[c].kind = "waitForNavigation"
       /\ calls[c].frame = lastEvent.frame
       /\ InFlight(c)
       /\ calls[c].timer = "armed"
       /\ calls[c].nextNavigationDog = "active"

\* C22: a wait task is in the wait-task set of its frame exactly while it
\* is pending (constructed and neither resolved, rejected nor terminated),
\* and a task whose timeout timer is armed is pending and registered.
C22_RegisteredIffPending ==
  \A t \in TaskIds :
    /\ t \in heap[tasks[t].frame].waitTasks
         <=> (tasks[t].state = "pending" /\ ~tasks[t].terminated)
    /\ tasks[t].timer = "armed" =>
         /\ tasks[t].state = "pending"
         /\ t \in heap[tasks[t].frame].waitTasks
    /\ \A f \in Objs : t \in heap[f].waitTasks => f = tasks[t].frame

\* a task with a timeout was rejected by a failure of its second attempt:
\* it has left the wait-task set and its timer is cleared
C22_Witness ==
  \E t \in TaskIds :
    /\ lastEvent.type = "evaluateHandleSettled"
    /\ lastEvent.task = t
    /\ lastEvent.outcome = "error"
    /\ lastEvent.run = 2
    /\ tasks[t].state = "rejected"
    /\ tasks[t].error = "Error"
    /\ tasks[t].timer = "cleared"
    /\ t \notin heap[tasks[t].frame].waitTasks

\* C23 (as claimed): whenever there is a main frame, the frames returned
\* by frames() are exactly the records of the frame index: every indexed
\* frame is reachable from the main frame, and every reachable frame is
\* indexed and not detached.
C23_FramesEqualIndex ==
  mainFrame # NULL =>
    /\ FramesCall.error = "none"
    /\ Range(FramesCall.value) = Range(frames)
    /\ \A f \in Range(FramesCall.value) : ~heap[f].isDetached

\* C24 (as claimed): a frame whose detached flag is set has an empty
\* wait-task set, also when a wait operation is called on the frame after
\* it was detached: no wait task is pending on a detached frame.
C24_DetachedFrameHasNoTasks ==
  /\ \A f \in Objs : heap[f].isDetached => heap[f].waitTasks = {}
  /\ \A t \in TaskIds :
       heap[tasks[t].frame].isDetached => tasks[t].state # "pending"

====
